---- MODULE Spec2Model ----
(***************************************************************************)
(* Model of the asset-build orchestrator of crates/build/src/pipelines:    *)
(* process_pipelines (manifest discovery, the sequential dispatch chain,   *)
(* the final collect) and Pipeline::process (strategy dispatch, the        *)
(* script-bundle fan-out, the tag/category merge).                         *)
(*                                                                         *)
(* Spec      : one batch, from the input file list to the returned list.   *)
(* MergeSpec : the metadata merge of Pipeline::process applied to          *)
(*             strategy-produced artifacts drawn from bounded sets.        *)
(***************************************************************************)
EXTENDS Integers, Sequences, FiniteSets, TLC

VARIABLES
    files,              \* ProcessCtx.files: the batch's input file list
    input_file_filter,  \* ProcessCtx.input_file_filter: None or Some(token)
    cursor,             \* how many entries of files the stream has taken
    fetching,           \* the manifest download/decode is pending
    queue,              \* (file, pipeline) pairs of the current manifest not yet dispatched
    disp,               \* every Pipeline::process call started so far, in start order
    out,                \* the Vec being collected
    pc,                 \* "running" | "done" | "panicked" | "idle"
    sink,               \* the write_file calls made so far, in call order
    errors,             \* number of on_error invocations (no step of the code makes one)
    fetched,            \* the manifest fetches made so far: file and what the download gave
    mAssets,            \* MergeSpec: the artifacts the strategy produced
    mPipeline,          \* MergeSpec: the pipeline declaration being processed
    mOut,               \* MergeSpec: what Pipeline::process returns for them
    mpc,                \* MergeSpec: "idle" | "ready" | "merged"
    hexIn,              \* HexSpec: the string given to Color::hex, as its chars
    hexOut,             \* HexSpec: what Color::hex returned
    mulColor,           \* MulSpec: the colour c
    mulRhs,             \* MulSpec: the right-hand side r, with its type
    mulOut,             \* MulSpec: the value of c * r
    assignOut,          \* MulSpec: the value of c after c *= r
    accColor,           \* AccessSpec: the colour c
    accCall,            \* AccessSpec: the method called on c, with its argument
    accOut,             \* AccessSpec: what the call gave back
    cpc                 \* HexSpec, MulSpec, AccessSpec: "idle" | "ready" | ... | "called"

vars == <<files, input_file_filter, cursor, fetching, queue, disp, out, pc, sink,
          errors, fetched, mAssets, mPipeline, mOut, mpc,
          hexIn, hexOut, mulColor, mulRhs, mulOut, assignOut,
          accColor, accCall, accOut, cpc>>

batchVars == <<files, input_file_filter, cursor, fetching, queue, disp, out, pc, sink,
               errors, fetched>>

mergeVars == <<mAssets, mPipeline, mOut, mpc>>

colorVars == <<hexIn, hexOut, mulColor, mulRhs, mulOut, assignOut,
               accColor, accCall, accOut, cpc>>

----------------------------------------------------------------------------
(* Bounds of the model *)

\* longest input file list
MaxFiles == 3
\* most category slots on a strategy-produced artifact (MergeSpec)
MaxSlots == 2
\* most category entries in a declaration (MergeSpec)
MaxDeclSlots == 2
\* longest tag list on a strategy-produced artifact (MergeSpec)
MaxTags == 2
\* longest input file list of a batch followed to its end (FairSpec)
MaxFairFiles == 2
\* most chars in a string given to Color::hex (HexSpec)
MaxHexChars == 8

----------------------------------------------------------------------------
(* Generic helpers *)

Range(s) == {s[i] : i \in 1..Len(s)}

SeqsUpTo(S, n) == UNION {[1..k -> S] : k \in 0..n}

None == <<>>

Some(x) == <<x>>

RECURSIVE Flatten(_)
Flatten(ss) == IF ss = <<>> THEN <<>> ELSE Head(ss) \o Flatten(Tail(ss))

RECURSIVE SumLen(_)
SumLen(ss) == IF ss = <<>> THEN 0 ELSE Len(Head(ss)) + SumLen(Tail(ss))

Count(s, x) == Cardinality({i \in 1..Len(s) : s[i] = x})

----------------------------------------------------------------------------
(* Locations.  A location is the sequence of the tokens of its path. *)

TomlA == <<"a", "/", "pipeline", ".", "toml">>

JsonB == <<"b", "/", "pipeline", ".", "json">>

BundleX == <<"a", "/", "x", ".", "script_bundle">>

BundleY == <<"b", "/", "y", ".", "script_bundle">>

TextZ == <<"a", "/", "z", ".", "txt">>

NoExt == <<"a", "/", "script_bundle">>

TomlMy == <<"a", "/", "my_", "pipeline", ".", "toml">>

Paths == {TomlA, JsonB, BundleX, BundleY, TextZ, NoExt, TomlMy}

EndsWith(path, suffix) ==
    /\ Len(path) >= Len(suffix)
    /\ SubSeq(path, Len(path) - Len(suffix) + 1, Len(path)) = suffix

LastIndexOf(path, tok) ==
    LET hits == {i \in 1..Len(path) : path[i] = tok}
    IN  IF hits = {} THEN 0 ELSE CHOOSE i \in hits : \A j \in hits : j <= i

FileName(path) == SubSeq(path, LastIndexOf(path, "/") + 1, Len(path))

\* AbsAssetUrl::extension: what follows the last "." of the file name, if any
Extension(path) ==
    LET name == FileName(path)
        dot == LastIndexOf(name, ".")
    IN  IF dot = 0 \/ dot = Len(name) THEN None
        ELSE Some(name[Len(name)])

\* PathBuf::with_extension on the relative path
WithExtension(path, ext) ==
    LET slash == LastIndexOf(path, "/")
        name == FileName(path)
        dot == LastIndexOf(name, ".")
        stem == IF dot = 0 THEN name ELSE SubSeq(name, 1, dot - 1)
    IN  SubSeq(path, 1, slash) \o stem \o <<".", ext>>

\* AbsAssetUrl::relative_path: path taken relative to the directory of root
RelativePath(root, path) ==
    LET dir == SubSeq(root, 1, LastIndexOf(root, "/"))
    IN  IF Len(path) >= Len(dir) /\ SubSeq(path, 1, Len(dir)) = dir
        THEN SubSeq(path, Len(dir) + 1, Len(path))
        ELSE <<"..", "/">> \o path

\* the bytes a download of path gives
FileBytes(path) == [bytes_of |-> path]

\* the location the content sink returns for a write
SinkLocation(path, bytes) == <<"out", "/">> \o path

----------------------------------------------------------------------------
(* Manifests: bytes as stored, and their decoding *)

PipelineConfigVariants == {"ScriptBundles"}

RawPlain == [pipeline |-> [type |-> "ScriptBundles"]]

RawEnv == [pipeline |-> [type |-> "ScriptBundles"], tags |-> <<"env">>]

RawCat == [pipeline |-> [type |-> "ScriptBundles"], tags |-> <<"env", "env">>,
           categories |-> << <<"x", "y", "x">> >>]

RawModels == [pipeline |-> [type |-> "Models"], tags |-> <<"m">>]

Garbage == [format |-> "garbage", body |-> <<>>]

DownloadErr == [format |-> "unreachable", body |-> <<>>]

ManifestBytes ==
    { [format |-> "toml", body |-> <<>>],
      [format |-> "toml", body |-> <<RawEnv>>],
      [format |-> "toml", body |-> <<RawEnv, RawCat>>],
      [format |-> "toml", body |-> <<RawModels>>],
      [format |-> "json", body |-> <<RawPlain>>],
      [format |-> "json", body |-> <<RawCat, RawModels>>],
      Garbage }

\* serde: a missing sources/tags/categories field takes its default
Field(raw, name) == IF name \in DOMAIN raw THEN raw[name] ELSE <<>>

DecodeOne(raw) ==
    [pipeline |-> raw.pipeline.type,
     sources |-> Field(raw, "sources"),
     tags |-> Field(raw, "tags"),
     categories |-> Field(raw, "categories")]

\* serde: a type that is no variant of PipelineConfig does not deserialize
Decodable(raw) == raw.pipeline.type \in PipelineConfigVariants

\* lenient decode: entries that do not deserialize are dropped
DecodeBodyMutant(body) ==
    LET keep == SelectSeq(body, Decodable)
    IN  [ok |-> TRUE, value |-> [i \in 1..Len(keep) |-> DecodeOne(keep[i])]]

\* Vec<Pipeline> from the entries of a manifest: Err when one entry fails
DecodeBody(body) ==
    IF \A i \in 1..Len(body) : Decodable(body[i])
    THEN [ok |-> TRUE, value |-> [i \in 1..Len(body) |-> DecodeOne(body[i])]]
    ELSE [ok |-> FALSE, value |-> <<>>]

\* download_toml / download_json: anyhow::Result<Vec<Pipeline>>
DownloadAs(format, got) ==
    IF got = DownloadErr \/ got.format # format
    THEN [ok |-> FALSE, value |-> <<>>]
    ELSE DecodeBody(got.body)

\* a manifest recognised by its whole file name
IsTomlManifestMutant(path) == FileName(path) = <<"pipeline", ".", "toml">>

\* file.0.path().ends_with("pipeline.toml")
IsTomlManifest(path) == EndsWith(path, <<"pipeline", ".", "toml">>)

IsJsonManifest(path) == EndsWith(path, <<"pipeline", ".", "json">>)

IsManifest(path) == IsTomlManifest(path) \/ IsJsonManifest(path)

\* Result::unwrap_or_default in place of unwrap
UnwrapMutant(res) == [panic |-> FALSE, value |-> res.value]

\* Result::unwrap
Unwrap(res) == [panic |-> ~res.ok, value |-> res.value]

\* download_toml for the first suffix, download_json for the second
DecoderFor(file) == IF IsTomlManifest(file) THEN "toml" ELSE "json"

\* the body of the filter_map closure for a manifest file
ManifestPipelines(file, got) == Unwrap(DownloadAs(DecoderFor(file), got))

\* only the first pipeline of a manifest is paired
PairWithManifestFirstMutant(file, pipelines) ==
    [i \in 1..(IF Len(pipelines) > 0 THEN 1 ELSE 0) |->
        [file |-> file, pipeline |-> pipelines[i]]]

\* the pipelines of a manifest paired back to front
PairWithManifestRevMutant(file, pipelines) ==
    [i \in 1..Len(pipelines) |->
        [file |-> file, pipeline |-> pipelines[Len(pipelines) + 1 - i]]]

\* flat_map: pipelines.into_iter().map(|pipeline| (file.clone(), pipeline))
PairWithManifest(file, pipelines) ==
    [i \in 1..Len(pipelines) |-> [file |-> file, pipeline |-> pipelines[i]]]

----------------------------------------------------------------------------
(* Artifacts and the metadata merge of Pipeline::process *)

\* a HashSet<String> is held as label -> number of occurrences, all of them 1
ToHashSet(labels) == [x \in Range(labels) |-> 1]

HashSetLabels(s) == DOMAIN s

HashSetSize(s) == Cardinality(DOMAIN s)

IsSet(s) == \A x \in DOMAIN s : s[x] = 1

\* the slot assigned instead of extended: the artifact's own labels are lost
HashSetAssignMutant(s, t) == t

\* extend as on a Vec: every label is added again
HashSetExtendMutant(s, t) ==
    [x \in DOMAIN s \cup DOMAIN t |->
        (IF x \in DOMAIN s THEN s[x] ELSE 0) + (IF x \in DOMAIN t THEN t[x] ELSE 0)]

\* HashSet::extend: inserts every label of t that s does not hold
HashSetExtend(s, t) ==
    [x \in DOMAIN s \cup DOMAIN t |-> IF x \in DOMAIN s THEN s[x] ELSE 1]

\* the merge bounded by the declaration's slots: creates the missing ones
MergeCategoriesMutant(own, declared) ==
    [i \in 1..(IF Len(own) > Len(declared) THEN Len(own) ELSE Len(declared)) |->
        IF i > Len(declared) THEN own[i]
        ELSE IF i > Len(own) THEN ToHashSet(declared[i])
        ELSE HashSetExtend(own[i], ToHashSet(declared[i]))]

\* for i in 0..asset.categories.len() { if let Some(cat) = self.categories.get(i) ... }
MergeCategories(own, declared) ==
    [i \in 1..Len(own) |->
        IF i <= Len(declared)
        THEN HashSetExtend(own[i], ToHashSet(declared[i]))
        ELSE own[i]]

\* the declared tags put in front
MergeTagsMutant(own, declared) == declared \o own

\* asset.tags.extend(self.tags.clone())
MergeTags(own, declared) == own \o declared

MergeAsset(pipeline, asset) ==
    [asset EXCEPT !.tags = MergeTags(@, pipeline.tags),
                  !.categories = MergeCategories(@, pipeline.categories)]

\* the list rebuilt back to front
MergeAssetsMutant(pipeline, assets) ==
    [k \in 1..Len(assets) |-> MergeAsset(pipeline, assets[Len(assets) + 1 - k])]

\* for asset in &mut assets { ... }
MergeAssets(pipeline, assets) ==
    [k \in 1..Len(assets) |-> MergeAsset(pipeline, assets[k])]

\* ctx.root.relative_path(file.path()).with_extension("script_bundle")
BundleWritePath(root, file) ==
    WithExtension(RelativePath(root, file), "script_bundle")

\* the OutAsset built without its source
ScriptBundleAssetMutant(file, content) ==
    [sub_asset |-> None,
     type_ |-> "ScriptBundle",
     hidden |-> FALSE,
     name |-> FileName(file),
     tags |-> <<>>,
     categories |-> <<>>,
     preview |-> "None",
     content |-> content,
     source |-> None]

\* the OutAsset the script-bundle transform builds
ScriptBundleAsset(file, content) ==
    [sub_asset |-> None,
     type_ |-> "ScriptBundle",
     hidden |-> FALSE,
     name |-> FileName(file),
     tags |-> <<>>,
     categories |-> <<>>,
     preview |-> "None",
     content |-> content,
     source |-> Some(file)]

----------------------------------------------------------------------------
(* The fan-out of PipelineCtx::process_files *)

\* the optional input filter narrows which locations take part
Participates(file) ==
    input_file_filter = None \/ input_file_filter[1] \in Range(file)

\* any file whose name ends with the script_bundle token
ScriptBundleFilterMutant(file) == EndsWith(file, <<"script_bundle">>)

\* |f| f.extension() == Some("script_bundle".to_string())
ScriptBundleFilter(file) == Extension(file) = Some("script_bundle")

\* the files process_files hands to the transform, in input order
MatchedFiles ==
    SelectSeq(files, LAMBDA f : ScriptBundleFilter(f) /\ Participates(f))

NewTask == [st |-> "download", bundle |-> None]

\* a dispatch that leaves out the files an earlier dispatch has written
NewDispatchMutant(root, pipeline) ==
    LET fresh == SelectSeq(MatchedFiles,
                           LAMBDA f : \A k \in 1..Len(sink) : sink[k].file # f)
    IN  [root |-> root,
         pipeline |-> pipeline,
         matched |-> fresh,
         task |-> [i \in 1..Len(fresh) |-> NewTask],
         assets |-> <<>>,
         returned |-> FALSE,
         result |-> <<>>]

\* PipelineCtx { process_ctx, pipeline, root: file } and the fan-out it starts
NewDispatch(root, pipeline) ==
    [root |-> root,
     pipeline |-> pipeline,
     matched |-> MatchedFiles,
     task |-> [i \in 1..Len(MatchedFiles) |-> NewTask],
     assets |-> <<>>,
     returned |-> FALSE,
     result |-> <<>>]

InFlight == {d \in 1..Len(disp) : ~disp[d].returned}

\* a chain that starts a call only once nothing is left to start
ThenReadyStuckMutant == InFlight = {} /\ queue = <<>>

\* a chain that starts the next call without awaiting the pending one
ThenReadyMutant == TRUE

\* StreamExt::then holds one pending future and polls upstream only when it has none
ThenReady == InFlight = {}

\* the collect that keeps one copy of equal artifacts
CollectMutant(acc, out_assets) ==
    acc \o SelectSeq(out_assets, LAMBDA a : a \notin Range(acc))

\* the collect that puts the newest assets first
CollectPrependMutant(acc, out_assets) == out_assets \o acc

\* .flat_map(|out_assets| iter(out_assets)).collect::<Vec<_>>()
Collect(acc, out_assets) == acc \o out_assets

----------------------------------------------------------------------------
(* process_pipelines *)

Init ==
    /\ files \in SeqsUpTo(Paths, MaxFiles)
    /\ input_file_filter \in {None, Some("a")}
    /\ cursor = 0
    /\ fetching = FALSE
    /\ queue = <<>>
    /\ disp = <<>>
    /\ out = <<>>
    /\ pc = "running"
    /\ sink = <<>>
    /\ errors = 0
    /\ fetched = <<>>
    /\ mAssets = <<>>
    /\ mPipeline = <<>>
    /\ mOut = <<>>
    /\ mpc = "idle"
    /\ hexIn = <<>>
    /\ hexOut = <<>>
    /\ mulColor = <<>>
    /\ mulRhs = <<>>
    /\ mulOut = <<>>
    /\ assignOut = <<>>
    /\ accColor = <<>>
    /\ accCall = <<>>
    /\ accOut = <<>>
    /\ cpc = "idle"

\* a chain that fetches manifests ahead of the dispatches
UpstreamPolledMutant ==
    /\ pc = "running"
    /\ ~fetching

\* the stream is polled for its next item only when nothing downstream is pending
UpstreamPolled ==
    /\ pc = "running"
    /\ ~fetching
    /\ queue = <<>>
    /\ ThenReady

\* filter_map on a file that is no manifest: return None
SkipFile ==
    /\ UpstreamPolled
    /\ cursor < Len(files)
    /\ ~IsManifest(files[cursor + 1])
    /\ cursor' = cursor + 1
    /\ UNCHANGED <<files, input_file_filter, fetching, queue, disp, out, pc, sink,
                   errors, fetched>>
    /\ UNCHANGED mergeVars
    /\ UNCHANGED colorVars

\* filter_map on a manifest: the download is started and awaited
BeginFetch ==
    /\ UpstreamPolled
    /\ cursor < Len(files)
    /\ IsManifest(files[cursor + 1])
    /\ cursor' = cursor + 1
    /\ fetching' = TRUE
    /\ UNCHANGED <<files, input_file_filter, queue, disp, out, pc, sink, errors, fetched>>
    /\ UNCHANGED mergeVars
    /\ UNCHANGED colorVars

\* the download resolves; unwrap; flat_map pairs every pipeline with the manifest
FetchManifest ==
    /\ pc = "running"
    /\ fetching
    /\ \E got \in ManifestBytes \cup {DownloadErr} :
          LET file == files[cursor]
              r == ManifestPipelines(file, got)
          IN  /\ fetched' = Append(fetched, [file |-> file, got |-> got,
                                              decoder |-> DecoderFor(file)])
              /\ fetching' = FALSE
              /\ IF r.panic
                 THEN pc' = "panicked" /\ queue' = queue
                 ELSE /\ pc' = pc
                      /\ queue' = PairWithManifest(file, r.value)
    /\ UNCHANGED <<files, input_file_filter, cursor, disp, out, sink, errors>>
    /\ UNCHANGED mergeVars
    /\ UNCHANGED colorVars

\* then: build the PipelineCtx and call Pipeline::process, up to the fan-out
StartDispatch ==
    /\ pc = "running"
    /\ queue # <<>>
    /\ ThenReady
    /\ LET item == Head(queue)
       IN  IF item.pipeline.pipeline = "ScriptBundles"
           THEN /\ disp' = Append(disp, NewDispatch(item.file, item.pipeline))
                /\ pc' = pc
           ELSE /\ disp' = disp
                /\ pc' = "panicked"
    /\ queue' = Tail(queue)
    /\ UNCHANGED <<files, input_file_filter, cursor, fetching, out, sink, errors, fetched>>
    /\ UNCHANGED mergeVars
    /\ UNCHANGED colorVars

\* file.download_bytes(..).await succeeds
DownloadBytesOk(d, i) ==
    /\ pc = "running"
    /\ disp[d].task[i].st = "download"
    /\ disp' = [disp EXCEPT ![d].task[i] =
                   [st |-> "write", bundle |-> Some(FileBytes(disp[d].matched[i]))]]
    /\ UNCHANGED <<files, input_file_filter, cursor, fetching, queue, out, pc, sink,
                   errors, fetched>>
    /\ UNCHANGED mergeVars
    /\ UNCHANGED colorVars

\* file.download_bytes(..).await fails: unwrap panics
DownloadBytesFail(d, i) ==
    /\ pc = "running"
    /\ disp[d].task[i].st = "download"
    /\ disp' = [disp EXCEPT ![d].task[i].st = "failed"]
    /\ pc' = "panicked"
    /\ UNCHANGED <<files, input_file_filter, cursor, fetching, queue, out, sink,
                   errors, fetched>>
    /\ UNCHANGED mergeVars
    /\ UNCHANGED colorVars

\* ctx.write_file(..).await, then the transform returns Ok(vec![OutAsset])
WriteFile(d, i) ==
    /\ pc = "running"
    /\ disp[d].task[i].st = "write"
    /\ LET file == disp[d].matched[i]
           path == BundleWritePath(disp[d].root, file)
           bundle == disp[d].task[i].bundle[1]
           content == SinkLocation(path, bundle)
       IN  /\ sink' = Append(sink, [dispatch |-> d, task |-> i, file |-> file,
                                    path |-> path, bytes |-> bundle,
                                    location |-> content])
           /\ disp' = [disp EXCEPT ![d].task[i].st = "done",
                                   ![d].assets = Append(@, ScriptBundleAsset(file, content))]
    /\ UNCHANGED <<files, input_file_filter, cursor, fetching, queue, out, pc, errors,
                   fetched>>
    /\ UNCHANGED mergeVars
    /\ UNCHANGED colorVars

\* the fan-out is over: merge the metadata, return; the assets reach the collect
ProcessReturn(d) ==
    /\ pc = "running"
    /\ ~disp[d].returned
    /\ \A i \in 1..Len(disp[d].task) : disp[d].task[i].st = "done"
    /\ LET merged == MergeAssets(disp[d].pipeline, disp[d].assets)
       IN  /\ disp' = [disp EXCEPT ![d].returned = TRUE, ![d].result = merged]
           /\ out' = Collect(out, merged)
    /\ UNCHANGED <<files, input_file_filter, cursor, fetching, queue, pc, sink, errors,
                   fetched>>
    /\ UNCHANGED mergeVars
    /\ UNCHANGED colorVars

\* the stream is exhausted: collect resolves and process_pipelines returns
Finish ==
    /\ UpstreamPolled
    /\ cursor = Len(files)
    /\ pc' = "done"
    /\ UNCHANGED <<files, input_file_filter, cursor, fetching, queue, disp, out, sink,
                   errors, fetched>>
    /\ UNCHANGED mergeVars
    /\ UNCHANGED colorVars

Next ==
    \/ SkipFile
    \/ BeginFetch
    \/ FetchManifest
    \/ StartDispatch
    \/ \E d \in 1..Len(disp) : \E i \in 1..Len(disp[d].task) : DownloadBytesOk(d, i)
    \/ \E d \in 1..Len(disp) : \E i \in 1..Len(disp[d].task) : DownloadBytesFail(d, i)
    \/ \E d \in 1..Len(disp) : \E i \in 1..Len(disp[d].task) : WriteFile(d, i)
    \/ \E d \in 1..Len(disp) : ProcessReturn(d)
    \/ Finish

Spec == Init /\ [][Next]_vars

\* the executor polls the future of process_pipelines until it resolves, and
\* every call it awaits resolves: a step that can be taken is taken
FairInit == Init /\ Len(files) <= MaxFairFiles

FairSpec == FairInit /\ [][Next]_vars /\ WF_vars(Next)

\* what process_pipelines has returned to its caller
Returned == IF pc = "done" THEN Some(out) ELSE None

----------------------------------------------------------------------------
(* The metadata merge on strategy-produced artifacts drawn from bounded sets *)

Tags == {"env", "a"}

OwnSlots == {ToHashSet(<<>>), ToHashSet(<<"y", "z">>), ToHashSet(<<"x">>)}

DeclaredTags == {<<>>, <<"env">>, <<"env", "env">>}

DeclaredCategory == {<<>>, <<"x", "y">>, <<"y", "x", "y">>}

PlainAsset == ScriptBundleAsset(BundleY, SinkLocation(<<"y", ".", "script_bundle">>, FileBytes(BundleY)))

ProducedAssets ==
    { [ScriptBundleAsset(BundleX, SinkLocation(<<"x", ".", "script_bundle">>, FileBytes(BundleX)))
          EXCEPT !.tags = t0, !.categories = c0] :
      t0 \in SeqsUpTo(Tags, MaxTags), c0 \in SeqsUpTo(OwnSlots, MaxSlots) }

Declarations ==
    { [pipeline |-> "ScriptBundles", sources |-> <<>>, tags |-> t, categories |-> c] :
      t \in DeclaredTags, c \in SeqsUpTo(DeclaredCategory, MaxDeclSlots) }

MergeInit ==
    /\ files = <<>>
    /\ input_file_filter = None
    /\ cursor = 0
    /\ fetching = FALSE
    /\ queue = <<>>
    /\ disp = <<>>
    /\ out = <<>>
    /\ pc = "idle"
    /\ sink = <<>>
    /\ errors = 0
    /\ fetched = <<>>
    /\ \E a \in ProducedAssets : mAssets \in {<<a>>, <<PlainAsset, a>>}
    /\ mPipeline \in Declarations
    /\ mOut = <<>>
    /\ mpc = "ready"
    /\ hexIn = <<>>
    /\ hexOut = <<>>
    /\ mulColor = <<>>
    /\ mulRhs = <<>>
    /\ mulOut = <<>>
    /\ assignOut = <<>>
    /\ accColor = <<>>
    /\ accCall = <<>>
    /\ accOut = <<>>
    /\ cpc = "idle"

\* Pipeline::process from the strategy's return to its own
MergeProcess ==
    /\ mpc = "ready"
    /\ mOut' = MergeAssets(mPipeline, mAssets)
    /\ mpc' = "merged"
    /\ UNCHANGED <<mAssets, mPipeline>>
    /\ UNCHANGED batchVars
    /\ UNCHANGED colorVars

MergeNext == MergeProcess

MergeSpec == MergeInit /\ [][MergeNext]_vars

-----------------------------------------------------------------------------
(* f32: a value is NaN or a fraction in lowest terms.  Rounding is not
   modelled: the fractions used are far further apart than the precision of
   an f32, and both sides of every comparison round the same operation. *)

RECURSIVE GCD(_, _)
GCD(a, b) == IF b = 0 THEN a ELSE GCD(b, a % b)

Abs(n) == IF n < 0 THEN 0 - n ELSE n

F32(n, d) ==
    LET g == GCD(Abs(n), d)
    IN  [nan |-> FALSE, num |-> n \div g, den |-> d \div g]

NaN == [nan |-> TRUE, num |-> 0, den |-> 1]

One == F32(1, 1)

FMul(a, b) ==
    IF a.nan \/ b.nan THEN NaN ELSE F32(a.num * b.num, a.den * b.den)

Rgba(r, g, b, a) ==
    [variant |-> "Rgba", red |-> r, green |-> g, blue |-> b, alpha |-> a]

RgbaLinear(r, g, b, a) ==
    [variant |-> "RgbaLinear", red |-> r, green |-> g, blue |-> b, alpha |-> a]

Hsla(h, s, l, a) ==
    [variant |-> "Hsla", hue |-> h, saturation |-> s, lightness |-> l,
     alpha |-> a]

\* Color::rgb
Rgb(r, g, b) == Rgba(r, g, b, One)

-----------------------------------------------------------------------------
(* Color::hex (HexSpec).  A string is the sequence of its chars; a char is
   named by a one-word string and stands for its code point. *)

\* '-' and 'g' are not hexadecimal digits; neither are the two-byte chars
\* U+0131, whose low byte is that of the digit '1', and U+00E9
CodePoint(ch) ==
    CASE ch = "0" -> 48
      [] ch = "9" -> 57
      [] ch = "a" -> 97
      [] ch = "F" -> 70
      [] ch = "-" -> 45
      [] ch = "g" -> 103
      [] ch = "dotless_i" -> 305
      [] ch = "e_acute" -> 233

\* the UTF-8 encoding of a char (code points below 0x800)
Utf8(ch) ==
    LET cp == CodePoint(ch)
    IN  IF cp < 128 THEN <<cp>>
        ELSE <<192 + (cp \div 64), 128 + (cp % 64)>>

\* hex.as_bytes()
AsBytes(str) == Flatten([i \in 1..Len(str) |-> Utf8(str[i])])

\* hex.len(): the length in bytes
ByteLen(str) == Len(AsBytes(str))

\* ch as u8
AsU8(ch) == CodePoint(ch) % 256

\* let mut data = [0; n]; each char written twice, in order
ExpandMutant(str, n) ==
    [j \in 1..n |->
        LET i == ((j - 1) \div 2) + 1
        IN  IF i <= Len(str) /\ j % 2 = 1 THEN AsU8(str[i]) ELSE 48]

Expand(str, n) ==
    [j \in 1..n |->
        LET i == ((j - 1) \div 2) + 1
        IN  IF i <= Len(str) THEN AsU8(str[i]) ELSE 0]

\* the value of one hexadecimal digit byte, -1 for any other byte
HexVal(b) ==
    IF b \in 48..57 THEN b - 48
    ELSE IF b \in 65..70 THEN b - 55
    ELSE IF b \in 97..102 THEN b - 87
    ELSE -1

\* hex::decode_to_slice(data, &mut buf) with buf of n bytes
DecodeToSlice(data, n) ==
    IF Len(data) % 2 # 0 THEN [ok |-> FALSE, err |-> "OddLength"]
    ELSE IF Len(data) \div 2 # n
    THEN [ok |-> FALSE, err |-> "InvalidStringLength"]
    ELSE IF \E j \in 1..Len(data) : HexVal(data[j]) = -1
    THEN [ok |-> FALSE, err |-> "InvalidHexCharacter"]
    ELSE [ok |-> TRUE,
          buf |-> [k \in 1..n |->
                      16 * HexVal(data[2 * k - 1]) + HexVal(data[2 * k])]]

decode_rgb(data) ==
    LET r == DecodeToSlice(data, 3)
    IN  IF r.ok
        THEN [ok |-> TRUE,
              color |-> Rgb(F32(r.buf[1], 255), F32(r.buf[2], 255),
                            F32(r.buf[3], 255))]
        ELSE [ok |-> FALSE, err |-> "Hex"]

decode_rgba(data) ==
    LET r == DecodeToSlice(data, 4)
    IN  IF r.ok
        THEN [ok |-> TRUE,
              color |-> Rgba(F32(r.buf[1], 255), F32(r.buf[2], 255),
                             F32(r.buf[3], 255), F32(r.buf[4], 255))]
        ELSE [ok |-> FALSE, err |-> "Hex"]

HexMutant(str) ==
    IF ByteLen(str) \in {3, 5} THEN decode_rgb(Expand(str, 6))
    ELSE IF ByteLen(str) = 4 THEN decode_rgba(Expand(str, 8))
    ELSE IF ByteLen(str) = 6 THEN decode_rgb(AsBytes(str))
    ELSE IF ByteLen(str) = 8 THEN decode_rgba(AsBytes(str))
    ELSE [ok |-> FALSE, err |-> "Length"]

Hex(str) ==
    IF ByteLen(str) = 3 THEN decode_rgb(Expand(str, 6))
    ELSE IF ByteLen(str) = 4 THEN decode_rgba(Expand(str, 8))
    ELSE IF ByteLen(str) = 6 THEN decode_rgb(AsBytes(str))
    ELSE IF ByteLen(str) = 8 THEN decode_rgba(AsBytes(str))
    ELSE [ok |-> FALSE, err |-> "Length"]

\* the strings tried: over the characters of the repository's own tests, over
\* a lower-case digit with a two-byte char, and over no digit at all
HexAlphabets == {{"0", "F", "-"}, {"a", "9", "dotless_i"}, {"g", "e_acute"}}

HexInputs == UNION {SeqsUpTo(A, MaxHexChars) : A \in HexAlphabets}

ColorIdleOthers ==
    /\ files = <<>>
    /\ input_file_filter = None
    /\ cursor = 0
    /\ fetching = FALSE
    /\ queue = <<>>
    /\ disp = <<>>
    /\ out = <<>>
    /\ pc = "idle"
    /\ sink = <<>>
    /\ errors = 0
    /\ fetched = <<>>
    /\ mAssets = <<>>
    /\ mPipeline = <<>>
    /\ mOut = <<>>
    /\ mpc = "idle"

HexInit ==
    /\ ColorIdleOthers
    /\ hexIn \in HexInputs
    /\ hexOut = <<>>
    /\ mulColor = <<>>
    /\ mulRhs = <<>>
    /\ mulOut = <<>>
    /\ assignOut = <<>>
    /\ accColor = <<>>
    /\ accCall = <<>>
    /\ accOut = <<>>
    /\ cpc = "ready"

HexCall ==
    /\ cpc = "ready"
    /\ hexIn \in HexInputs
    /\ hexOut' = Hex(hexIn)
    /\ cpc' = "called"
    /\ UNCHANGED <<hexIn, mulColor, mulRhs, mulOut, assignOut>>
    /\ UNCHANGED <<accColor, accCall, accOut>>
    /\ UNCHANGED batchVars
    /\ UNCHANGED mergeVars

HexNext == HexCall

HexSpec == HexInit /\ [][HexNext]_vars

-----------------------------------------------------------------------------
(* Multiplication of a colour (MulSpec) *)

\* impl Mul<f32> for Color
Mulf32(c, rhs) ==
    CASE c.variant = "Rgba" ->
            Rgba(FMul(c.red, rhs), FMul(c.green, rhs),
                 FMul(c.blue, rhs), c.alpha)
      [] c.variant = "RgbaLinear" ->
            RgbaLinear(FMul(c.red, rhs), FMul(c.green, rhs),
                       FMul(c.blue, rhs), c.alpha)
      [] c.variant = "Hsla" ->
            Hsla(FMul(c.hue, rhs), FMul(c.saturation, rhs),
                 FMul(c.lightness, rhs), c.alpha)

MulAssignf32Mutant(c, rhs) ==
    IF c.variant \in {"Rgba", "RgbaLinear"}
    THEN [c EXCEPT !.red = FMul(@, rhs),
                  !.green = FMul(@, rhs),
                  !.blue = FMul(@, rhs)]
    ELSE [c EXCEPT !.hue = FMul(@, rhs),
                  !.saturation = FMul(@, rhs),
                  !.lightness = FMul(@, rhs),
                  !.alpha = FMul(@, rhs)]

\* impl MulAssign<f32> for Color: the value of self afterwards
MulAssignf32(c, rhs) ==
    IF c.variant \in {"Rgba", "RgbaLinear"}
    THEN [c EXCEPT !.red = FMul(@, rhs),
                  !.green = FMul(@, rhs),
                  !.blue = FMul(@, rhs)]
    ELSE [c EXCEPT !.hue = FMul(@, rhs),
                  !.saturation = FMul(@, rhs),
                  !.lightness = FMul(@, rhs)]

\* impl Mul<Vec4> for Color
MulVec4(c, rhs) ==
    CASE c.variant = "Rgba" ->
            Rgba(FMul(c.red, rhs.x), FMul(c.green, rhs.y),
                 FMul(c.blue, rhs.z), FMul(c.alpha, rhs.w))
      [] c.variant = "RgbaLinear" ->
            RgbaLinear(FMul(c.red, rhs.x), FMul(c.green, rhs.y),
                       FMul(c.blue, rhs.z), FMul(c.alpha, rhs.w))
      [] c.variant = "Hsla" ->
            Hsla(FMul(c.hue, rhs.x), FMul(c.saturation, rhs.y),
                 FMul(c.lightness, rhs.z), FMul(c.alpha, rhs.w))

\* impl MulAssign<Vec4> for Color: the value of self afterwards
MulAssignVec4(c, rhs) ==
    IF c.variant \in {"Rgba", "RgbaLinear"}
    THEN [c EXCEPT !.red = FMul(@, rhs.x),
                  !.green = FMul(@, rhs.y),
                  !.blue = FMul(@, rhs.z),
                  !.alpha = FMul(@, rhs.w)]
    ELSE [c EXCEPT !.hue = FMul(@, rhs.x),
                  !.saturation = FMul(@, rhs.y),
                  !.lightness = FMul(@, rhs.z),
                  !.alpha = FMul(@, rhs.w)]

\* impl Mul<Vec3> for Color
MulVec3(c, rhs) ==
    CASE c.variant = "Rgba" ->
            Rgba(FMul(c.red, rhs.x), FMul(c.green, rhs.y),
                 FMul(c.blue, rhs.z), c.alpha)
      [] c.variant = "RgbaLinear" ->
            RgbaLinear(FMul(c.red, rhs.x), FMul(c.green, rhs.y),
                       FMul(c.blue, rhs.z), c.alpha)
      [] c.variant = "Hsla" ->
            Hsla(FMul(c.hue, rhs.x), FMul(c.saturation, rhs.y),
                 FMul(c.lightness, rhs.z), c.alpha)

\* impl MulAssign<Vec3> for Color: the value of self afterwards
MulAssignVec3(c, rhs) ==
    IF c.variant \in {"Rgba", "RgbaLinear"}
    THEN [c EXCEPT !.red = FMul(@, rhs.x),
                  !.green = FMul(@, rhs.y),
                  !.blue = FMul(@, rhs.z)]
    ELSE [c EXCEPT !.hue = FMul(@, rhs.x),
                  !.saturation = FMul(@, rhs.y),
                  !.lightness = FMul(@, rhs.z)]

\* impl Mul<[f32; 4]> for Color
MulArr4(c, rhs) ==
    CASE c.variant = "Rgba" ->
            Rgba(FMul(c.red, rhs.at[1]), FMul(c.green, rhs.at[2]),
                 FMul(c.blue, rhs.at[3]), FMul(c.alpha, rhs.at[4]))
      [] c.variant = "RgbaLinear" ->
            RgbaLinear(FMul(c.red, rhs.at[1]), FMul(c.green, rhs.at[2]),
                       FMul(c.blue, rhs.at[3]), FMul(c.alpha, rhs.at[4]))
      [] c.variant = "Hsla" ->
            Hsla(FMul(c.hue, rhs.at[1]), FMul(c.saturation, rhs.at[2]),
                 FMul(c.lightness, rhs.at[3]), FMul(c.alpha, rhs.at[4]))

\* impl MulAssign<[f32; 4]> for Color: the value of self afterwards
MulAssignArr4(c, rhs) ==
    IF c.variant \in {"Rgba", "RgbaLinear"}
    THEN [c EXCEPT !.red = FMul(@, rhs.at[1]),
                  !.green = FMul(@, rhs.at[2]),
                  !.blue = FMul(@, rhs.at[3]),
                  !.alpha = FMul(@, rhs.at[4])]
    ELSE [c EXCEPT !.hue = FMul(@, rhs.at[1]),
                  !.saturation = FMul(@, rhs.at[2]),
                  !.lightness = FMul(@, rhs.at[3]),
                  !.alpha = FMul(@, rhs.at[4])]

\* impl Mul<[f32; 3]> for Color
MulArr3(c, rhs) ==
    CASE c.variant = "Rgba" ->
            Rgba(FMul(c.red, rhs.at[1]), FMul(c.green, rhs.at[2]),
                 FMul(c.blue, rhs.at[3]), c.alpha)
      [] c.variant = "RgbaLinear" ->
            RgbaLinear(FMul(c.red, rhs.at[1]), FMul(c.green, rhs.at[2]),
                       FMul(c.blue, rhs.at[3]), c.alpha)
      [] c.variant = "Hsla" ->
            Hsla(FMul(c.hue, rhs.at[1]), FMul(c.saturation, rhs.at[2]),
                 FMul(c.lightness, rhs.at[3]), c.alpha)

\* impl MulAssign<[f32; 3]> for Color: the value of self afterwards
MulAssignArr3(c, rhs) ==
    IF c.variant \in {"Rgba", "RgbaLinear"}
    THEN [c EXCEPT !.red = FMul(@, rhs.at[1]),
                  !.green = FMul(@, rhs.at[2]),
                  !.blue = FMul(@, rhs.at[3])]
    ELSE [c EXCEPT !.hue = FMul(@, rhs.at[1]),
                  !.saturation = FMul(@, rhs.at[2]),
                  !.lightness = FMul(@, rhs.at[3])]

\* c * r, by the type of r
Mul(c, r) ==
    CASE r.type = "f32" -> Mulf32(c, r.x)
      [] r.type = "Vec4" -> MulVec4(c, r)
      [] r.type = "Vec3" -> MulVec3(c, r)
      [] r.type = "[f32; 4]" -> MulArr4(c, r)
      [] r.type = "[f32; 3]" -> MulArr3(c, r)

\* c after c *= r, by the type of r
MulAssign(c, r) ==
    CASE r.type = "f32" -> MulAssignf32(c, r.x)
      [] r.type = "Vec4" -> MulAssignVec4(c, r)
      [] r.type = "Vec3" -> MulAssignVec3(c, r)
      [] r.type = "[f32; 4]" -> MulAssignArr4(c, r)
      [] r.type = "[f32; 3]" -> MulAssignArr3(c, r)

\* the f32 values tried
MulValues == {F32(1, 2), F32(3, 1), NaN}

MulColors ==
    {Rgba(r, g, b, a) : r \in MulValues, g \in MulValues,
                        b \in MulValues, a \in MulValues}
    \cup {RgbaLinear(r, g, b, a) : r \in MulValues, g \in MulValues,
                                   b \in MulValues, a \in MulValues}
    \cup {Hsla(h, s, l, a) : h \in MulValues, s \in MulValues,
                             l \in MulValues, a \in MulValues}

MulRhs ==
    {[type |-> "f32", x |-> x] : x \in MulValues}
    \cup {[type |-> "Vec3", x |-> x, y |-> y, z |-> z] :
             x \in MulValues, y \in MulValues, z \in MulValues}
    \cup {[type |-> "Vec4", x |-> x, y |-> y, z |-> z, w |-> w] :
             x \in MulValues, y \in MulValues, z \in MulValues,
             w \in MulValues}
    \cup {[type |-> "[f32; 3]", at |-> v] : v \in [1..3 -> MulValues]}
    \cup {[type |-> "[f32; 4]", at |-> v] : v \in [1..4 -> MulValues]}

MulInit ==
    /\ ColorIdleOthers
    /\ hexIn = <<>>
    /\ hexOut = <<>>
    /\ mulColor \in MulColors
    /\ mulRhs \in MulRhs
    /\ mulOut = <<>>
    /\ assignOut = <<>>
    /\ accColor = <<>>
    /\ accCall = <<>>
    /\ accOut = <<>>
    /\ cpc = "ready"

\* let product = c * r
MulCall ==
    /\ cpc = "ready"
    /\ mulColor \in MulColors
    /\ mulOut' = Mul(mulColor, mulRhs)
    /\ cpc' = "multiplied"
    /\ UNCHANGED <<hexIn, hexOut, mulColor, mulRhs, assignOut>>
    /\ UNCHANGED <<accColor, accCall, accOut>>
    /\ UNCHANGED batchVars
    /\ UNCHANGED mergeVars

\* let mut a = c; a *= r
MulAssignCall ==
    /\ cpc = "multiplied"
    /\ assignOut' = MulAssign(mulColor, mulRhs)
    /\ cpc' = "called"
    /\ UNCHANGED <<hexIn, hexOut, mulColor, mulRhs, mulOut>>
    /\ UNCHANGED <<accColor, accCall, accOut>>
    /\ UNCHANGED batchVars
    /\ UNCHANGED mergeVars

MulNext == MulCall \/ MulAssignCall

MulSpec == MulInit /\ [][MulNext]_vars

-----------------------------------------------------------------------------
(* Conversions between the variants, and the accessors built on them
   (AccessSpec).  The colour-space functions of crate::colorspace are kept
   as terms: the value a function returns is the function applied to its
   arguments, whatever number that is. *)

\* x.linear_to_nonlinear_srgb()
LinearToNonlinear(x) == [fn |-> "linear_to_nonlinear_srgb", arg |-> <<x>>]

\* x.nonlinear_to_linear_srgb()
NonlinearToLinear(x) == [fn |-> "nonlinear_to_linear_srgb", arg |-> <<x>>]

\* HslRepresentation::hsl_to_nonlinear_srgb(h, s, l): [red, green, blue]
HslToNonlinear(h, s, l) ==
    [i \in 1..3 |-> [fn |-> "hsl_to_nonlinear_srgb", arg |-> <<h, s, l>>,
                     out |-> i]]

\* HslRepresentation::nonlinear_srgb_to_hsl([r, g, b]): (hue, saturation, lightness)
NonlinearToHsl(r, g, b) ==
    [i \in 1..3 |-> [fn |-> "nonlinear_srgb_to_hsl", arg |-> <<r, g, b>>,
                     out |-> i]]

\* (x + amount).clamp(0., 1.)
AddClamp(x, amount) == [fn |-> "add_clamp", arg |-> <<x, amount>>]

as_rgba(c) ==
    CASE c.variant = "Rgba" -> c
      [] c.variant = "RgbaLinear" ->
            Rgba(LinearToNonlinear(c.red), LinearToNonlinear(c.green),
                 LinearToNonlinear(c.blue), c.alpha)
      [] c.variant = "Hsla" ->
            LET rgb == HslToNonlinear(c.hue, c.saturation, c.lightness)
            IN  Rgba(rgb[1], rgb[2], rgb[3], c.alpha)

as_rgba_linear(c) ==
    CASE c.variant = "Rgba" ->
            RgbaLinear(NonlinearToLinear(c.red), NonlinearToLinear(c.green),
                       NonlinearToLinear(c.blue), c.alpha)
      [] c.variant = "RgbaLinear" -> c
      [] c.variant = "Hsla" ->
            LET rgb == HslToNonlinear(c.hue, c.saturation, c.lightness)
            IN  RgbaLinear(NonlinearToLinear(rgb[1]), NonlinearToLinear(rgb[2]),
                           NonlinearToLinear(rgb[3]), c.alpha)

\* a conversion that takes every colour that is not Rgba for an Hsla one
as_hslaMutant(c) ==
    CASE c.variant = "Rgba" ->
            LET hsl == NonlinearToHsl(c.red, c.green, c.blue)
            IN  Hsla(hsl[1], hsl[2], hsl[3], c.alpha)
      [] c.variant \in {"RgbaLinear", "Hsla"} -> c

as_hsla(c) ==
    CASE c.variant = "Rgba" ->
            LET hsl == NonlinearToHsl(c.red, c.green, c.blue)
            IN  Hsla(hsl[1], hsl[2], hsl[3], c.alpha)
      [] c.variant = "RgbaLinear" ->
            LET hsl == NonlinearToHsl(LinearToNonlinear(c.red),
                                      LinearToNonlinear(c.green),
                                      LinearToNonlinear(c.blue))
            IN  Hsla(hsl[1], hsl[2], hsl[3], c.alpha)
      [] c.variant = "Hsla" -> c

\* what a call gives back: a value, or the panic of unreachable!()
Value(v) == [unreachable |-> FALSE, value |-> v]

Unreachable == [unreachable |-> TRUE, value |-> <<>>]

\* Color::r / g / b: match self.as_rgba() { Color::Rgba { .. } => .., _ => unreachable!() }
Color_r(c) ==
    LET x == as_rgba(c)
    IN  IF x.variant = "Rgba" THEN Value(x.red) ELSE Unreachable

Color_g(c) ==
    LET x == as_rgba(c)
    IN  IF x.variant = "Rgba" THEN Value(x.green) ELSE Unreachable

Color_b(c) ==
    LET x == as_rgba(c)
    IN  IF x.variant = "Rgba" THEN Value(x.blue) ELSE Unreachable

\* Color::set_r / set_g / set_b: *self = self.as_rgba(), then the field is set;
\* the value is the colour afterwards
set_r(c, v) ==
    LET x == as_rgba(c)
    IN  IF x.variant = "Rgba" THEN Value([x EXCEPT !.red = v]) ELSE Unreachable

set_g(c, v) ==
    LET x == as_rgba(c)
    IN  IF x.variant = "Rgba" THEN Value([x EXCEPT !.green = v]) ELSE Unreachable

set_b(c, v) ==
    LET x == as_rgba(c)
    IN  IF x.variant = "Rgba" THEN Value([x EXCEPT !.blue = v]) ELSE Unreachable

\* Color::a
Color_a(c) == Value(c.alpha)

\* Color::set_a: the colour afterwards
set_a(c, v) == Value([c EXCEPT !.alpha = v])

\* Color::saturate
saturate(c, amount) ==
    LET x == as_hsla(c)
    IN  IF x.variant = "Hsla"
        THEN Value(Hsla(x.hue, AddClamp(x.saturation, amount), x.lightness,
                        x.alpha))
        ELSE Unreachable

\* Color::lighten
lighten(c, amount) ==
    LET x == as_hsla(c)
    IN  IF x.variant = "Hsla"
        THEN Value(Hsla(x.hue, x.saturation, AddClamp(x.lightness, amount),
                        x.alpha))
        ELSE Unreachable

\* impl From<Color> for wgpu::Color
WgpuFrom(c) ==
    LET x == as_rgba_linear(c)
    IN  IF x.variant = "RgbaLinear"
        THEN Value([r |-> x.red, g |-> x.green, b |-> x.blue, a |-> x.alpha])
        ELSE Unreachable

Conversions == {"as_rgba", "as_rgba_linear", "as_hsla"}

Getters == {"r", "g", "b", "a"}

Setters == {"set_r", "set_g", "set_b", "set_a"}

Adjusters == {"saturate", "lighten"}

\* the calls tried: a method, with its f32 argument when it takes one
AccessCalls ==
    {[method |-> m, arg |-> None] :
        m \in Conversions \cup Getters \cup {"wgpu::Color::from"}}
    \cup {[method |-> m, arg |-> Some(v)] :
             m \in Setters \cup Adjusters, v \in MulValues}

AccessInit ==
    /\ ColorIdleOthers
    /\ hexIn = <<>>
    /\ hexOut = <<>>
    /\ mulColor = <<>>
    /\ mulRhs = <<>>
    /\ mulOut = <<>>
    /\ assignOut = <<>>
    /\ accColor \in MulColors
    /\ accCall \in AccessCalls
    /\ accOut = <<>>
    /\ cpc = "ready"

AccessDone(result) ==
    /\ accOut' = result
    /\ cpc' = "called"
    /\ UNCHANGED <<hexIn, hexOut, mulColor, mulRhs, mulOut, assignOut,
                   accColor, accCall>>
    /\ UNCHANGED batchVars
    /\ UNCHANGED mergeVars

ConvertCall ==
    /\ cpc = "ready"
    /\ accCall \in AccessCalls
    /\ accCall.method \in Conversions
    /\ AccessDone(CASE accCall.method = "as_rgba" -> Value(as_rgba(accColor))
                    [] accCall.method = "as_rgba_linear" ->
                          Value(as_rgba_linear(accColor))
                    [] accCall.method = "as_hsla" -> Value(as_hsla(accColor)))

GetCall ==
    /\ cpc = "ready"
    /\ accCall \in AccessCalls
    /\ accCall.method \in Getters
    /\ AccessDone(CASE accCall.method = "r" -> Color_r(accColor)
                    [] accCall.method = "g" -> Color_g(accColor)
                    [] accCall.method = "b" -> Color_b(accColor)
                    [] accCall.method = "a" -> Color_a(accColor))

SetCall ==
    /\ cpc = "ready"
    /\ accCall \in AccessCalls
    /\ accCall.method \in Setters
    /\ AccessDone(CASE accCall.method = "set_r" -> set_r(accColor, accCall.arg[1])
                    [] accCall.method = "set_g" -> set_g(accColor, accCall.arg[1])
                    [] accCall.method = "set_b" -> set_b(accColor, accCall.arg[1])
                    [] accCall.method = "set_a" -> set_a(accColor, accCall.arg[1]))

AdjustCall ==
    /\ cpc = "ready"
    /\ accCall \in AccessCalls
    /\ accCall.method \in Adjusters
    /\ AccessDone(CASE accCall.method = "saturate" ->
                          saturate(accColor, accCall.arg[1])
                    [] accCall.method = "lighten" ->
                          lighten(accColor, accCall.arg[1]))

WgpuCall ==
    /\ cpc = "ready"
    /\ accCall \in AccessCalls
    /\ accCall.method = "wgpu::Color::from"
    /\ AccessDone(WgpuFrom(accColor))

AccessNext == ConvertCall \/ GetCall \/ SetCall \/ AdjustCall \/ WgpuCall

AccessSpec == AccessInit /\ [][AccessNext]_vars

----------------------------------------------------------------------------
(* Properties of the dispatch chain (Spec) *)

TasksDone(d) == \A i \in 1..Len(disp[d].task) : disp[d].task[i].st = "done"

\* C1: at most one Pipeline::process call is in flight at any moment; every
\* call started before another one has returned, with all of its transforms
\* and sink writes done, and the sink sees the writes of one declaration
\* before any write of the next.
C1_OneDispatchAtATime ==
    /\ Cardinality(InFlight) <= 1
    /\ \A d \in 1..Len(disp) : d < Len(disp) => disp[d].returned /\ TasksDone(d)
    /\ \A k \in 1..Len(sink) : \A m \in 1..Len(sink) :
          k < m => sink[k].dispatch <= sink[m].dispatch

C1_Witness ==
    /\ Len(disp) >= 2
    /\ Len(disp[1].matched) >= 1
    /\ disp[1].returned
    /\ \E i \in 1..Len(disp[2].task) : disp[2].task[i].st = "write"

FailedTasks(d) == {i \in 1..Len(disp[d].task) : disp[d].task[i].st = "failed"}

\* C2: when exactly one transform of a fan-out over N files fails, the
\* failure is isolated: the batch is not aborted, on_error has been invoked
\* exactly once, and the call returns the artifacts of the other N-1 files.
C2_FailureIsolated ==
    \A d \in 1..Len(disp) :
        Len(disp[d].matched) >= 2 /\ Cardinality(FailedTasks(d)) = 1 =>
            /\ pc # "panicked"
            /\ errors = 1
            /\ disp[d].returned => Len(disp[d].result) = Len(disp[d].matched) - 1

DispatchResults == [d \in 1..Len(disp) |-> disp[d].result]

\* C3: the list process_pipelines returns holds every artifact of every
\* dispatch exactly once: its length is the sum of the per-dispatch counts
\* and each artifact occurs as often as the dispatches returned it.
C3_EveryArtifactOnce ==
    pc = "done" =>
        /\ \A d \in 1..Len(disp) : disp[d].returned
        /\ Len(out) = SumLen(DispatchResults)
        /\ \A a \in Range(out) \cup Range(Flatten(DispatchResults)) :
              Count(out, a) = Count(Flatten(DispatchResults), a)

C3_Witness ==
    /\ pc = "done"
    /\ Len(disp) = 2
    /\ disp[1].root # disp[2].root
    /\ Len(disp[1].result) >= 1
    /\ Len(disp[2].result) >= 1
    /\ Len(out) = 2

DeclaresOtherKind(got) ==
    \E i \in 1..Len(got.body) : got.body[i].pipeline.type # "ScriptBundles"

\* C8: a declaration whose kind is not the script-bundle kind never gets an
\* artifact list out of Pipeline::process, and a batch that met one does not
\* complete normally.
C8_OtherKindIsFatal ==
    /\ \A d \in 1..Len(disp) :
          disp[d].pipeline.pipeline # "ScriptBundles" => ~disp[d].returned
    /\ (\E k \in 1..Len(fetched) : DeclaresOtherKind(fetched[k].got)) =>
          pc # "done" /\ Returned = None

C8_Witness ==
    /\ pc = "panicked"
    /\ Len(fetched) = 2
    /\ ~DeclaresOtherKind(fetched[1].got)
    /\ fetched[2].file = JsonB
    /\ fetched[2].got = [format |-> "json", body |-> <<RawCat, RawModels>>]

\* the download failed, or the bytes are no manifest of the format the file's
\* name asks for, or an entry of it is no pipeline declaration
Undecodable(k) ==
    LET file == fetched[k].file
        got == fetched[k].got
    IN  \/ got = DownloadErr
        \/ got = Garbage
        \/ EndsWith(file, <<"toml">>) /\ got.format # "toml"
        \/ EndsWith(file, <<"json">>) /\ got.format # "json"
        \/ DeclaresOtherKind(got)

\* C9: when the bytes of a manifest fail to download or to decode, the whole
\* batch aborts: process_pipelines returns no list, the artifacts of the
\* manifests that decoded correctly included.
C9_ManifestFailureAborts ==
    (\E k \in 1..Len(fetched) : Undecodable(k)) =>
        pc = "panicked" /\ Returned = None

C9_Witness ==
    /\ pc = "panicked"
    /\ Len(fetched) = 2
    /\ ~Undecodable(1)
    /\ Undecodable(2)
    /\ fetched[2].got = Garbage
    /\ Len(out) >= 1

ScriptBundlePaths == {BundleX, BundleY}

\* C10: with no input filter, a script-bundle dispatch returns exactly one
\* artifact for each input file whose extension is script_bundle, none for
\* any other file, and every artifact carries the declaration's tags.
C10_OneArtifactPerBundle ==
    input_file_filter = None =>
        \A d \in 1..Len(disp) :
            disp[d].returned =>
                LET r == disp[d].result
                IN  /\ \A f \in Paths :
                          Cardinality({j \in 1..Len(r) : r[j].source = Some(f)}) =
                              (IF f \in ScriptBundlePaths THEN Count(files, f) ELSE 0)
                    /\ Len(r) = Cardinality({k \in 1..Len(files) :
                                                files[k] \in ScriptBundlePaths})
                    /\ \A j \in 1..Len(r) : r[j].tags = disp[d].pipeline.tags

C10_Witness ==
    /\ input_file_filter = None
    /\ files = <<TomlA, BundleX, TextZ>>
    /\ Len(disp) = 1
    /\ disp[1].returned
    /\ disp[1].pipeline.tags = <<"env">>
    /\ Len(disp[1].result) = 1
    /\ disp[1].result[1].source = Some(BundleX)
    /\ disp[1].result[1].tags = <<"env">>

\* the path of a file relative to the directory of the manifest
PathFromManifest(root, file) ==
    IF file[1] = root[1] THEN SubSeq(file, 3, Len(file)) ELSE <<"..", "/">> \o file

\* C11: for each matched file the bytes given to write_file are the bytes
\* downloaded for it, the path is the file's location relative to the manifest,
\* and the artifact is not hidden, has the location write_file returned for
\* that file as content and that file as source.
C11_WriteAndArtifactPerFile ==
    /\ \A k \in 1..Len(sink) :
          LET e == sink[k]
              t == disp[e.dispatch].task[e.task]
          IN  /\ e.file = disp[e.dispatch].matched[e.task]
              /\ t.bundle = Some(e.bytes)
              /\ e.bytes.bytes_of = e.file
              /\ e.path = PathFromManifest(disp[e.dispatch].root, e.file)
    /\ \A d \in 1..Len(disp) :
          /\ Len(disp[d].assets) = Cardinality({k \in 1..Len(sink) : sink[k].dispatch = d})
          /\ \A j \in 1..Len(disp[d].assets) :
                LET a == disp[d].assets[j]
                IN  /\ a.hidden = FALSE
                    /\ \E k \in 1..Len(sink) :
                          /\ sink[k].dispatch = d
                          /\ a.source = Some(sink[k].file)
                          /\ a.content = sink[k].location
          /\ disp[d].returned =>
                \A j \in 1..Len(disp[d].result) :
                    /\ disp[d].result[j].hidden = disp[d].assets[j].hidden
                    /\ disp[d].result[j].content = disp[d].assets[j].content
                    /\ disp[d].result[j].source = disp[d].assets[j].source

C11_Witness ==
    /\ Len(disp) = 1
    /\ disp[1].root = TomlA
    /\ disp[1].matched = <<BundleX, BundleY>>
    /\ disp[1].returned
    /\ Len(sink) = 2
    /\ sink[1].file = BundleY
    /\ sink[1].path = <<"..", "/", "b", "/", "y", ".", "script_bundle">>
    /\ sink[2].path = <<"x", ".", "script_bundle">>
    /\ disp[1].result[1].source = Some(BundleY)
    /\ disp[1].result[1].content = sink[1].location
    /\ disp[1].result[2].source = Some(BundleX)
    /\ disp[1].result[2].content = sink[2].location
    /\ sink[1].location # sink[2].location

NamedPipeline(file, ext) ==
    /\ Len(file) >= 3
    /\ file[Len(file) - 2] = "pipeline"
    /\ file[Len(file) - 1] = "."
    /\ file[Len(file)] = ext

NamedManifest(file) == NamedPipeline(file, "toml") \/ NamedPipeline(file, "json")

\* the files the stream has taken and is done examining
Examined == SubSeq(files, 1, IF fetching THEN cursor - 1 ELSE cursor)

FetchedFiles == [k \in 1..Len(fetched) |-> fetched[k].file]

\* C12: a file is treated as a manifest exactly when its path ends with
\* pipeline.toml or pipeline.json: every such file the stream has examined
\* was fetched, with the toml decoder for the first suffix and the json one
\* for the second; no other file is fetched or gives a pipeline declaration.
C12_ManifestBySuffix ==
    /\ FetchedFiles = SelectSeq(Examined, NamedManifest)
    /\ \A k \in 1..Len(fetched) :
          \/ NamedPipeline(fetched[k].file, "toml") /\ fetched[k].decoder = "toml"
          \/ NamedPipeline(fetched[k].file, "json") /\ fetched[k].decoder = "json"
    /\ \A d \in 1..Len(disp) : NamedManifest(disp[d].root)
    /\ \A q \in 1..Len(queue) : NamedManifest(queue[q].file)

C12_Witness ==
    /\ pc = "done"
    /\ files = <<TomlMy, TextZ, JsonB>>
    /\ Len(fetched) = 2
    /\ fetched[1].file = TomlMy /\ fetched[1].decoder = "toml"
    /\ fetched[2].file = JsonB /\ fetched[2].decoder = "json"
    /\ Len(disp) = 2

\* the (manifest, declaration) pairs the fetched manifests declare, in the
\* order of the fetches and, within a manifest, of its entries
DeclaredPairs ==
    Flatten([k \in 1..Len(fetched) |->
                [i \in 1..Len(fetched[k].got.body) |->
                    [file |-> fetched[k].file,
                     pipeline |-> DecodeOne(fetched[k].got.body[i])]]])

\* the run context of every dispatch started, in start order
DispatchedPairs ==
    [d \in 1..Len(disp) |-> [file |-> disp[d].root, pipeline |-> disp[d].pipeline]]

\* C13: in a batch that completes, every declaration of every discovered
\* manifest has been dispatched exactly once, with the location of its own
\* manifest as root and itself as pipeline.
C13_EveryDeclarationDispatchedOnce ==
    pc = "done" =>
        /\ Len(DispatchedPairs) = Len(DeclaredPairs)
        /\ \A p \in Range(DeclaredPairs) \cup Range(DispatchedPairs) :
              Count(DispatchedPairs, p) = Count(DeclaredPairs, p)
        /\ \A d \in 1..Len(disp) : disp[d].returned

C13_Witness ==
    /\ pc = "done"
    /\ Len(fetched) = 2
    /\ fetched[1].file = TomlA
    /\ Len(fetched[1].got.body) = 2
    /\ fetched[2].file = JsonB
    /\ Len(fetched[2].got.body) = 1
    /\ Len(disp) = 3
    /\ disp[2].root = TomlA
    /\ disp[3].root = JsonB

ReturnedResults ==
    Flatten([d \in 1..Len(disp) |-> IF disp[d].returned THEN disp[d].result ELSE <<>>])

\* C14: the list being returned is the concatenation of the lists the
\* dispatches returned, in the order the dispatches ran: the artifacts of one
\* dispatch are contiguous, in the order it returned them, before those of
\* every later dispatch.
C14_ConcatenationInDispatchOrder ==
    /\ out = ReturnedResults
    /\ pc = "done" =>
          \A d \in 1..Len(disp) :
              LET before == SumLen([e \in 1..(d - 1) |-> disp[e].result])
              IN  \A j \in 1..Len(disp[d].result) : out[before + j] = disp[d].result[j]

C14_Witness ==
    /\ pc = "done"
    /\ Len(disp) = 2
    /\ disp[1].matched = <<BundleX, BundleY>>
    /\ disp[1].result[1].source = Some(BundleY)
    /\ disp[1].result[2].source = Some(BundleX)
    /\ disp[1].result[1].tags # disp[2].result[1].tags
    /\ out = disp[1].result \o disp[2].result

\* C18: manifests are fetched lazily, one at a time, in input order: while a
\* manifest is being fetched every declaration of every earlier manifest has
\* been fully dispatched; so when a manifest fails and the batch aborts, the
\* sink writes of the earlier manifests' pipelines have all been made.
C18_LazyManifestFetch ==
    /\ fetching =>
          /\ queue = <<>>
          /\ InFlight = {}
          /\ Len(disp) = Len(DeclaredPairs)
          /\ \A k \in 1..Len(fetched) :
                \E i \in 1..(cursor - 1) : files[i] = fetched[k].file
    /\ \A k \in 1..Len(fetched) : \A m \in 1..Len(fetched) :
          k < m => \E i \in 1..cursor : \E j \in 1..cursor :
                      i < j /\ files[i] = fetched[k].file /\ files[j] = fetched[m].file
    /\ (pc = "panicked" /\ queue = <<>> /\ InFlight = {}) =>
          /\ Len(disp) = SumLen([k \in 1..(Len(fetched) - 1) |-> fetched[k].got.body])
          /\ \A d \in 1..Len(disp) :
                Cardinality({k \in 1..Len(sink) : sink[k].dispatch = d})
                    = Len(disp[d].matched)

C18_Witness ==
    /\ pc = "panicked"
    /\ files = <<TomlA, BundleX, JsonB>>
    /\ Len(fetched) = 2
    /\ Len(fetched[1].got.body) = 2
    /\ fetched[2].got = DownloadErr
    /\ Len(disp) = 2
    /\ Len(sink) = 2

\* C19: the dispatch order is a function of the input: the dispatches started
\* so far are, in order, the first declarations of the manifests in input-list
\* order, each manifest's declarations in the order it lists them, whatever
\* the order in which the downloads of a fan-out complete.
C19_DispatchOrderDetermined ==
    /\ Len(DispatchedPairs) <= Len(DeclaredPairs)
    /\ DispatchedPairs = SubSeq(DeclaredPairs, 1, Len(DispatchedPairs))
    /\ FetchedFiles = SelectSeq(Examined, IsManifest)

C19_Witness ==
    /\ files = <<BundleX, BundleY, TomlA>>
    /\ Len(fetched) = 1
    /\ fetched[1].got.body = <<RawEnv, RawCat>>
    /\ Len(disp) = 2
    /\ disp[1].pipeline.tags = <<"env">>
    /\ disp[1].result[1].source = Some(BundleY)
    /\ disp[2].pipeline.tags = <<"env", "env">>
    /\ disp[2].returned
    /\ disp[2].result[1].source = Some(BundleX)

\* C20: script-bundle declarations match the input list independently: with
\* no input filter, K declarations and M input files with the extension
\* script_bundle, a completed batch has called write_file K*M times and
\* returns K*M artifacts, one per declaration for each such file.
C20_EveryDeclarationSeesEveryFile ==
    (pc = "done" /\ input_file_filter = None) =>
        LET K == SumLen([k \in 1..Len(fetched) |-> fetched[k].got.body])
            M == Cardinality({i \in 1..Len(files) : files[i] \in ScriptBundlePaths})
        IN  /\ Len(sink) = K * M
            /\ Len(out) = K * M
            /\ \A f \in ScriptBundlePaths :
                  Cardinality({j \in 1..Len(out) : out[j].source = Some(f)})
                      = K * Count(files, f)

C20_Witness ==
    /\ pc = "done"
    /\ input_file_filter = None
    /\ files = <<TomlA, BundleX, BundleY>>
    /\ Len(disp) = 2
    /\ Len(sink) = 4
    /\ Len(out) = 4

\* a manifest download or decode, or a download of bundle bytes, has failed
CallFailed ==
    \/ \E k \in 1..Len(fetched) :
          ManifestPipelines(fetched[k].file, fetched[k].got).panic
    \/ \E d \in 1..Len(disp) : \E i \in 1..Len(disp[d].task) :
          disp[d].task[i].st = "failed"

\* process_pipelines has returned and every declaration was dispatched
ReturnedAllDispatched ==
    /\ pc = "done"
    /\ cursor = Len(files)
    /\ DispatchedPairs = DeclaredPairs
    /\ \A d \in 1..Len(disp) : disp[d].returned

\* whatever the chain is waiting on is a call that was started and can resolve
NothingStuck ==
    pc = "running" =>
        /\ ENABLED Next
        /\ ~UpstreamPolled /\ ~fetching /\ queue = <<>> =>
              \E d \in InFlight :
                 \/ \E i \in 1..Len(disp[d].task) :
                       disp[d].task[i].st \in {"download", "write"}
                 \/ ENABLED ProcessReturn(d)

\* C22: when no download, decode or write fails, process_pipelines eventually
\* returns, with every declaration of every manifest dispatched; and while it
\* runs, the chain always has a step to take and never waits on a dispatch
\* that was not started.
C22_EventuallyReturns ==
    /\ []NothingStuck
    /\ <>(CallFailed \/ ReturnedAllDispatched)

\* a batch with two declarations and a bundle file has run to its return
C22_Witness ==
    /\ pc = "done"
    /\ ~CallFailed
    /\ Len(files) = 2
    /\ Len(disp) = 2
    /\ Len(sink) >= 2
    /\ DispatchedPairs = DeclaredPairs

----------------------------------------------------------------------------
(* Properties of the metadata merge (MergeSpec) *)

\* C4: after Pipeline::process an artifact's tags are the tags T0 the strategy
\* gave it followed by the declaration's tags T: order kept, duplicates kept,
\* T appended exactly once.
C4_TagsConcatenated ==
    mpc = "merged" =>
        /\ Len(mOut) = Len(mAssets)
        /\ \A k \in 1..Len(mAssets) :
              LET t0 == mAssets[k].tags
                  t == mPipeline.tags
                  got == mOut[k].tags
              IN  /\ Len(got) = Len(t0) + Len(t)
                  /\ \A i \in 1..Len(t0) : got[i] = t0[i]
                  /\ \A j \in 1..Len(t) : got[Len(t0) + j] = t[j]

C4_Witness ==
    /\ mpc = "merged"
    /\ mAssets[Len(mAssets)].tags = <<"a", "env">>
    /\ mPipeline.tags = <<"env", "env">>
    /\ mOut[Len(mOut)].tags = <<"a", "env", "env", "env">>

DeclaredLabels(i) ==
    IF i <= Len(mPipeline.categories) THEN Range(mPipeline.categories[i]) ELSE {}

\* C5: for every slot i the strategy-produced artifact has, categories[i]
\* after Pipeline::process holds exactly the labels of the artifact's own
\* slot and of the declaration's categories[i] (the own labels alone when the
\* declaration has no index i).
C5_CategoriesUnion ==
    mpc = "merged" =>
        \A k \in 1..Len(mAssets) :
            \A i \in 1..Len(mAssets[k].categories) :
                /\ i \in DOMAIN mOut[k].categories
                /\ HashSetLabels(mOut[k].categories[i]) =
                      HashSetLabels(mAssets[k].categories[i]) \cup DeclaredLabels(i)

C5_Witness ==
    /\ mpc = "merged"
    /\ Len(mAssets) = 1
    /\ Len(mAssets[1].categories) = 2
    /\ HashSetLabels(mAssets[1].categories[1]) = {"y", "z"}
    /\ mPipeline.categories = << <<"x", "y">> >>
    /\ HashSetLabels(mOut[1].categories[1]) = {"x", "y", "z"}
    /\ HashSetSize(mOut[1].categories[1]) = 3
    /\ mOut[1].categories[2] = mAssets[1].categories[2]

\* C6: the merge creates no category slot: every artifact keeps the number of
\* slots the strategy gave it, whatever the declaration lists (a script-bundle
\* artifact keeps none).
C6_NoSlotCreated ==
    mpc = "merged" =>
        \A k \in 1..Len(mAssets) :
            /\ k \in DOMAIN mOut
            /\ Len(mOut[k].categories) = Len(mAssets[k].categories)

C6_Witness ==
    /\ mpc = "merged"
    /\ Len(mAssets) = 2
    /\ mAssets[1] = PlainAsset
    /\ Len(mAssets[2].categories) = 1
    /\ Len(mPipeline.categories) = 2
    /\ mOut[1].categories = <<>>
    /\ Len(mOut[2].categories) = 1

\* C7: after the merge every category slot of an artifact holds each label
\* once, also when the declaration's list for that slot repeats a label or
\* names one the artifact already has.
C7_SlotsAreSets ==
    mpc = "merged" =>
        \A k \in 1..Len(mOut) :
            \A i \in 1..Len(mOut[k].categories) : IsSet(mOut[k].categories[i])

C7_Witness ==
    /\ mpc = "merged"
    /\ Len(mAssets) = 1
    /\ Len(mAssets[1].categories) = 1
    /\ HashSetLabels(mAssets[1].categories[1]) = {"y", "z"}
    /\ mPipeline.categories = << <<"y", "x", "y">> >>
    /\ HashSetLabels(mOut[1].categories[1]) = {"x", "y", "z"}
    /\ IsSet(mOut[1].categories[1])

\* the fields of an artifact the merge has no business with
FrameOf(asset) ==
    [name |-> asset.name, type_ |-> asset.type_, hidden |-> asset.hidden,
     preview |-> asset.preview, content |-> asset.content,
     source |-> asset.source, sub_asset |-> asset.sub_asset]

\* C21: the merge adds, removes and reorders no artifact, and leaves each
\* artifact's name, type, hidden flag, preview, content, source and sub_asset
\* as the strategy produced them; only tags and categories may differ.
C21_MergeChangesOnlyTagsAndCategories ==
    mpc = "merged" =>
        /\ Len(mOut) = Len(mAssets)
        /\ \A k \in 1..Len(mAssets) :
              /\ FrameOf(mOut[k]) = FrameOf(mAssets[k])
              /\ DOMAIN mOut[k] = DOMAIN mAssets[k]

\* two different artifacts have been merged, tags and a category slot of the
\* second have changed, and both kept their frame and their place
C21_Witness ==
    /\ mpc = "merged"
    /\ Len(mAssets) = 2
    /\ FrameOf(mAssets[1]) # FrameOf(mAssets[2])
    /\ mOut[2].tags # mAssets[2].tags
    /\ mOut[2].categories # mAssets[2].categories
    /\ FrameOf(mOut[1]) = FrameOf(mAssets[1])
    /\ FrameOf(mOut[2]) = FrameOf(mAssets[2])

-----------------------------------------------------------------------------
(* Properties of Color::hex (HexSpec) *)

\* the chars of the model that are hexadecimal digits
HexDigitChars == {"0", "9", "a", "F"}

AllHexDigits(str) == \A i \in 1..Len(str) : str[i] \in HexDigitChars

HexLengths == {3, 4, 6, 8}

\* C15: Color::hex returns Err(Length) for every string whose length in bytes
\* is not 3, 4, 6 or 8, an error for every string of one of those lengths
\* that contains a character which is not a hexadecimal digit, and Ok for
\* every string of one of those lengths made only of hexadecimal digits.
\* A string of 3, 4, 6 or 8 chars with a character that is not a digit is
\* refused as well, whatever its length in bytes.
C15_HexAcceptsExactlyHexDigits ==
    cpc = "called" /\ hexIn \in HexInputs =>
        /\ ByteLen(hexIn) \notin HexLengths
              => hexOut = [ok |-> FALSE, err |-> "Length"]
        /\ ByteLen(hexIn) \in HexLengths /\ ~AllHexDigits(hexIn)
              => hexOut = [ok |-> FALSE, err |-> "Hex"]
        /\ Len(hexIn) \in HexLengths /\ ~AllHexDigits(hexIn)
              => ~hexOut.ok
        /\ ByteLen(hexIn) \in HexLengths /\ AllHexDigits(hexIn)
              => hexOut.ok

\* a string of three bytes and two chars, the first of which is cut by
\* `as u8` to the digit '1', has been refused
C15_Witness ==
    /\ cpc = "called"
    /\ hexIn = <<"dotless_i", "9">>
    /\ ByteLen(hexIn) = 3
    /\ HexVal(AsU8(hexIn[1])) = 1
    /\ hexOut = [ok |-> FALSE, err |-> "Hex"]

DigitValue(ch) ==
    CASE ch = "0" -> 0
      [] ch = "9" -> 9
      [] ch = "a" -> 10
      [] ch = "F" -> 15

\* the value of the two-digit byte hh, over 255
Channel(hi, lo) == F32(16 * DigitValue(hi) + DigitValue(lo), 255)

Doubled(str) == Flatten([i \in 1..Len(str) |-> <<str[i], str[i]>>])

\* C17: on hexadecimal digits, hex('RGB') is the colour hex('RRGGBB') and
\* hex('RGBA') is the colour hex('RRGGBBAA'); the 3- and 6-digit forms have
\* alpha 1.0; every channel is the value of its two-digit byte over 255.
C17_ShortFormIsDoubledLongForm ==
    cpc = "called" /\ hexIn \in HexInputs /\ AllHexDigits(hexIn) =>
        /\ Len(hexIn) \in {3, 4} =>
              /\ hexOut.ok
              /\ hexOut = Hex(Doubled(hexIn))
              /\ hexOut.color.variant = "Rgba"
              /\ hexOut.color.red = Channel(hexIn[1], hexIn[1])
              /\ hexOut.color.green = Channel(hexIn[2], hexIn[2])
              /\ hexOut.color.blue = Channel(hexIn[3], hexIn[3])
              /\ hexOut.color.alpha =
                    IF Len(hexIn) = 3 THEN One
                    ELSE Channel(hexIn[4], hexIn[4])
        /\ Len(hexIn) \in {6, 8} =>
              /\ hexOut.ok
              /\ hexOut.color.variant = "Rgba"
              /\ hexOut.color.red = Channel(hexIn[1], hexIn[2])
              /\ hexOut.color.green = Channel(hexIn[3], hexIn[4])
              /\ hexOut.color.blue = Channel(hexIn[5], hexIn[6])
              /\ hexOut.color.alpha =
                    IF Len(hexIn) = 6 THEN One
                    ELSE Channel(hexIn[7], hexIn[8])

\* 'a9a' has been parsed to the channels 0xaa, 0x99, 0xaa over 255
C17_Witness ==
    /\ cpc = "called"
    /\ hexIn = <<"a", "9", "a">>
    /\ hexOut.ok
    /\ hexOut.color.red = F32(170, 255)
    /\ hexOut.color.green = F32(153, 255)
    /\ hexOut.color.alpha = One

-----------------------------------------------------------------------------
(* Properties of the multiplication of a colour (MulSpec) *)

Components(c) ==
    IF c.variant = "Hsla"
    THEN <<c.hue, c.saturation, c.lightness, c.alpha>>
    ELSE <<c.red, c.green, c.blue, c.alpha>>

Factors(r) ==
    CASE r.type = "f32" -> <<r.x, r.x, r.x>>
      [] r.type = "Vec3" -> <<r.x, r.y, r.z>>
      [] r.type = "Vec4" -> <<r.x, r.y, r.z, r.w>>
      [] r.type \in {"[f32; 3]", "[f32; 4]"} -> r.at

\* C16: for every variant and every right-hand side of type f32, [f32; 3],
\* [f32; 4], Vec3 or Vec4, c * r is the value c has after c *= r; the variant
\* is kept; the three leading components are multiplied by the factor (or by
\* the matching factor); alpha is multiplied by the fourth factor when there
\* is one and is left alone otherwise.
C16_MulEqualsMulAssign ==
    cpc = "called" =>
        /\ mulOut = assignOut
        /\ mulOut.variant = mulColor.variant
        /\ \A i \in 1..3 :
              Components(mulOut)[i] =
                 FMul(Components(mulColor)[i], Factors(mulRhs)[i])
        /\ mulOut.alpha =
              IF Len(Factors(mulRhs)) = 4
              THEN FMul(mulColor.alpha, Factors(mulRhs)[4])
              ELSE mulColor.alpha

\* an Hsla colour has been multiplied both ways by a Vec4 that changes all
\* four components
C16_Witness ==
    /\ cpc = "called"
    /\ mulColor.variant = "Hsla"
    /\ mulRhs.type = "Vec4"
    /\ \A i \in 1..4 : Components(mulOut)[i] # Components(mulColor)[i]
    /\ ~mulOut.alpha.nan
    /\ mulOut = assignOut

-----------------------------------------------------------------------------
(* Properties of the conversions and accessors (AccessSpec) *)

VariantOf(method) ==
    CASE method = "as_rgba" -> "Rgba"
      [] method = "as_rgba_linear" -> "RgbaLinear"
      [] method = "as_hsla" -> "Hsla"

\* C23: for a colour of any variant, as_rgba gives an Rgba value,
\* as_rgba_linear an RgbaLinear value and as_hsla an Hsla value, each with the
\* alpha of the colour; no call of r, g, b, set_r, set_g, set_b, saturate,
\* lighten or the wgpu conversion ends in unreachable!(); set_r, set_g and
\* set_b leave the colour in the Rgba variant; set_a keeps the variant and
\* changes alpha only.
C23_ConversionsReachTheirVariant ==
    cpc = "called" /\ accCall \in AccessCalls =>
        LET m == accCall.method
        IN  /\ ~accOut.unreachable
            /\ m \in Conversions =>
                  /\ accOut.value.variant = VariantOf(m)
                  /\ accOut.value.alpha = accColor.alpha
            /\ m \in {"set_r", "set_g", "set_b"} =>
                  /\ accOut.value.variant = "Rgba"
                  /\ accOut.value.alpha = accColor.alpha
                  /\ accCall.arg[1] =
                        CASE m = "set_r" -> accOut.value.red
                          [] m = "set_g" -> accOut.value.green
                          [] m = "set_b" -> accOut.value.blue
            /\ m = "set_a" =>
                  /\ accOut.value.variant = accColor.variant
                  /\ accOut.value.alpha = accCall.arg[1]
                  /\ [accOut.value EXCEPT !.alpha = accColor.alpha] = accColor
            /\ m \in Adjusters =>
                  /\ accOut.value.variant = "Hsla"
                  /\ accOut.value.alpha = accColor.alpha

\* a linear colour has been saturated: as_hsla converted it, the Hsla arm ran
C23_Witness ==
    /\ cpc = "called"
    /\ accColor.variant = "RgbaLinear"
    /\ accCall.method = "saturate"
    /\ ~accOut.unreachable
    /\ accOut.value.variant = "Hsla"
    /\ accOut.value.hue # accColor.red
    /\ accOut.value.alpha = accColor.alpha

=============================================================================
